---- MODULE Spec2Model ----
(***************************************************************************)
(* A model of the mempool sub-allocator (src/src/mempool/mempool.c).       *)
(*                                                                         *)
(* Addresses are natural numbers, NULL is 0.  A block descriptor           *)
(* (struct mem_block_t) is a record [ptr, size]; a linked list of          *)
(* descriptors is the sequence of the records met when following the next  *)
(* links from the head.  The handle is obtained with malloc and            *)
(* mempool_init never stores to free_list (before its first read) nor to   *)
(* allocated_list, so the link that ends each list is either NULL or an    *)
(* indeterminate value: free_wild / allocated_wild say which.  Following   *)
(* a NULL or an indeterminate link is undefined behaviour; the model       *)
(* moves to the terminal status "crashed", which stands for every outcome  *)
(* of that undefined behaviour (the operation does not return normally).   *)
(*                                                                         *)
(* The bytes of the backing region are in mem, a function from addresses   *)
(* to byte values, where a specification follows them (SpecMem); elsewhere *)
(* mem has no address in its domain and memset / memcpy leave it alone.    *)
(*                                                                         *)
(* Descriptor records come from malloc and go back with free; records is   *)
(* the number of them that malloc has handed out and free has not yet      *)
(* been called on.                                                         *)
(***************************************************************************)
EXTENDS Integers, Sequences, FiniteSets, TLC

\* ---------------------------------------------------------------- bounds
MaxBlocks == 4          \* the largest pool holds this many 8-byte blocks
MaxReqBlocks == 4       \* requests need at most this many blocks, plus one byte
MaxCoalesced == 1       \* cap on num_coalesced
MaxMembers == 2         \* largest member count passed to calloc
MTBlocks == 3           \* blocks of the pool the threads share
MaxProbeOut == 3        \* blocks at the low end of the large pool that may be out
MemBlocks == 4          \* blocks of the pool whose contents are followed
MaxStoredBlocks == 1    \* the client stops storing once this many blocks hold its bytes
ZeroBlocks == 3         \* blocks of the pool calloc is followed on

\* ------------------------------------------------------- input domains
NULL == 0
SizeInputs == {0, 8, 8 * MaxBlocks}
BlockSizeInputs == {0, 5, 8}
\* malloc returns storage aligned for any fundamental type, so line 37
\* computes an alignment of 0 whatever the address is
OrigInputs == {16}
MemberSizeInputs == {0, 8}
U16 == 65536
Threads == {"T1", "T2"}

VARIABLES
    status,               \* "uninit" | "live" | "crashed" | "destroyed"
    mempool_size,         \* mempool->mempool_size
    block_size,           \* mempool->block_size
    thread_safe,          \* mempool->thread_safe == THREAD_SAFE_REQ
    memory_pool_original, \* mempool->memory_pool_original
    memory_pool_aligned,  \* mempool->memory_pool_aligned
    free_list,            \* descriptors reachable from mempool->free_list
    free_wild,            \* the free list ends in an indeterminate link
    allocated_list,       \* descriptors reachable from mempool->allocated_list
    allocated_wild,       \* the allocated list ends in an indeterminate link
    num_coalesced,        \* mempool->num_coalesced
    free_mutex,           \* "uninit" | "unlocked" | "locked" | "undefined"
    allocated_mutex,
    last,                 \* the last call of the sequential client: [op, a, b, ret]
    thr,                  \* per thread: the call in progress and its locals
    probe,                \* one call of mempool_alloc on a pool of 2^16 blocks
    mem,                  \* the bytes of the backing region whose contents are
                          \* followed, by address
    records               \* descriptor records malloc'd and not yet free'd

vars == <<status, mempool_size, block_size, thread_safe, memory_pool_original,
          memory_pool_aligned, free_list, free_wild, allocated_list,
          allocated_wild, num_coalesced, free_mutex, allocated_mutex, last, thr,
          probe, mem, records>>

config == <<mempool_size, block_size, thread_safe, memory_pool_original,
            memory_pool_aligned>>

\* ------------------------------------------------------------- helpers
\* a thread that is not inside a call: op is the call, n and p its arguments,
\* tmp the value read from num_coalesced, held the descriptors detached from
\* both lists, ret the pointer the call returns, owned the pointers the thread
\* was handed and has not given back
IdleThread(owned) ==
    [pc |-> "idle", op |-> "none", n |-> 0, p |-> 0, tmp |-> 0, held |-> <<>>,
     ret |-> 0, owned |-> owned]

Call(op, a, b, ret) == [op |-> op, a |-> a, b |-> b, ret |-> ret]

Block(p, s) == [ptr |-> p, size |-> s]

\* the descriptors of a list in positions lo..hi
Slice(l, lo, hi) == SubSeq(l, lo, hi)

\* position of the first descriptor of l whose ptr is p, 0 when there is none
RECURSIVE IndexOfFrom(_, _, _)
IndexOfFrom(l, p, i) ==
    IF i > Len(l) THEN 0
    ELSE IF l[i].ptr = p THEN i
    ELSE IndexOfFrom(l, p, i + 1)

IndexOf(l, p) == IndexOfFrom(l, p, 1)

\* -------------------------------------------------------- mempool_init
Alignment(orig) == orig % 8

AlignedPtr(orig) == orig + Alignment(orig)

RoundedBlockSize(B) == B + (B % 8)

NumBlocks(S, B) == S \div RoundedBlockSize(B)

\* lines 53-74: block i starts (i - 1) * block_size bytes into the aligned
\* region and is linked behind block i - 1
InitFreeList(aligned, n, bs) ==
    Slice([i \in 1..n |-> Block(aligned + (i - 1) * bs, bs)], 1, n)

InitRejects(S, B) == S <= 0 \/ B = 0 \/ B >= S

mempool_init(S, B, ts, orig, fw, aw) ==
    /\ status = "uninit"
    /\ UNCHANGED <<probe, mem>>
    /\ IF InitRejects(S, B)
       THEN /\ last' = Call("init", S, B, 0)
            /\ UNCHANGED <<status, config, free_list, free_wild, allocated_list,
                           allocated_wild, num_coalesced, free_mutex, allocated_mutex,
                           thr, records>>
       ELSE /\ mempool_size' = S
            /\ UNCHANGED thr
            /\ block_size' = RoundedBlockSize(B)
            /\ thread_safe' = ts
            /\ memory_pool_original' = orig
            /\ memory_pool_aligned' = AlignedPtr(orig)
            /\ num_coalesced' = 0
            /\ allocated_list' = <<>>
            /\ allocated_wild' = aw
            /\ free_wild' = fw
            /\ free_mutex' = IF ts THEN "unlocked" ELSE "uninit"
            /\ allocated_mutex' = IF ts THEN "unlocked" ELSE "uninit"
            /\ IF fw /\ NumBlocks(S, B) > 0
               THEN \* line 64 takes the else branch, line 71 writes through
                    \* free_list_tail == NULL
                    /\ status' = "crashed"
                    /\ free_list' = <<>>
                    /\ records' = 0
                    /\ last' = Call("init", S, B, 0)
               ELSE /\ status' = "live"
                    /\ free_list' = InitFreeList(AlignedPtr(orig), NumBlocks(S, B),
                                                 RoundedBlockSize(B))
                    \* line 55: one record for each block
                    /\ records' = NumBlocks(S, B)
                    /\ last' = Call("init", S, B, 1)

\* ------------------------------------------------------- mempool_alloc
\* the round-up term of line 148 left out
BlocksNeeded_Floor(n, bs) == n \div bs

\* blocks_needed, line 148
BlocksNeeded(n, bs) == (n \div bs) + (IF n % bs = 0 THEN 0 ELSE 1)

\* line 176 left out: a break in contiguity does not reset the run count
SearchStep_NoReset(fl, bs, needed, i, s) ==
    IF ~(s.cnt < needed)
    THEN s
    ELSE [prev |-> fl[i].ptr, cnt |-> (s.cnt + 1) % U16, head |-> s.head,
          cursor |-> i + 1]

\* lines 169-185, one pass of the search loop with the cursor at position i:
\* prev is previous_address, cnt is contiguous_blocks (u_int16_t), head is
\* contiguous_chunk_head.  Once cnt is not below needed the loop has ended and
\* the locals stay as they are.
SearchStep(fl, bs, needed, i, s) ==
    IF ~(s.cnt < needed)
    THEN s
    ELSE IF fl[i].ptr - s.prev = bs
    THEN [prev |-> fl[i].ptr, cnt |-> (s.cnt + 1) % U16, head |-> s.head,
          cursor |-> i + 1]
    ELSE [prev |-> fl[i].ptr, cnt |-> 1, head |-> i, cursor |-> i + 1]

\* the passes with the cursor at positions lo..hi, in that order (the range is
\* halved so that the evaluation nests no deeper than the logarithm of the
\* length of the list)
RECURSIVE SearchPasses(_, _, _, _, _, _)
SearchPasses(fl, bs, needed, lo, hi, s) ==
    IF lo > hi \/ ~(s.cnt < needed)
    THEN s
    ELSE IF lo = hi
    THEN SearchStep(fl, bs, needed, lo, s)
    ELSE LET mid == (lo + hi) \div 2
         IN  SearchPasses(fl, bs, needed, mid + 1, hi,
                          SearchPasses(fl, bs, needed, lo, mid, s))

\* lines 157-185: the locals when the loop ends; cursor Len(fl) + 1 is NULL
ContiguousSearch(fl, bs, needed) ==
    SearchPasses(fl, bs, needed, 2, Len(fl),
                 [prev |-> fl[1].ptr, cnt |-> 1, head |-> 1, cursor |-> 2])

\* lines 209-225 with the head of the chunk left linked: only the blocks
\* after it leave the free list
RemoveChunk_HeadStays(fl, h, t) ==
    Slice(fl, 1, h) \o Slice(fl, t + 1, Len(fl))

\* lines 209-225: the free list without the chunk that starts at position h
\* and ends at position t
RemoveChunk(fl, h, t) ==
    IF fl[1].ptr = fl[h].ptr
    THEN Slice(fl, t + 1, Len(fl))
    ELSE Slice(fl, 1, IndexOf(fl, fl[h].ptr) - 1) \o Slice(fl, t + 1, Len(fl))

\* lines 232-252: the records of the chunk after its head, each passed to
\* free(), when alloc(n) finds its run on the free list fl
Companions(fl, bs, n) ==
    IF fl = <<>> \/ n <= bs
    THEN 0
    ELSE LET found == ContiguousSearch(fl, bs, BlocksNeeded(n, bs))
         IN  IF found.cnt < BlocksNeeded(n, bs) THEN 0 ELSE found.cnt - 1

\* the mutex an error path unlocks without testing thread_safe_req
UnlockUnchecked(m, ts) == IF ts THEN "unlocked" ELSE "undefined"

AllocOutcome(ret, fl, al, nc, fm, crash) ==
    [ret |-> ret, free |-> fl, alloc |-> al, coal |-> nc, fmutex |-> fm,
     crash |-> crash]

\* line 122 left out: the head stays on the free list
AllocFast_NoPop(fl, al, nc, fm) ==
    AllocOutcome(fl[1].ptr, fl, <<fl[1]>> \o al, nc, fm, FALSE)

\* lines 112-141
AllocFast(fl, al, nc, fm) ==
    AllocOutcome(fl[1].ptr, Tail(fl), <<fl[1]>> \o al, nc, fm, FALSE)

\* lines 189-196 left out: whatever run the search ended on is taken
AllocCoalesce_NoFailCheck(fl, fw, al, nc, fm, ts, bs, n) ==
    LET needed == BlocksNeeded(n, bs)
        found == ContiguousSearch(fl, bs, needed)
        t == found.head + found.cnt - 1
        merged == Block(fl[found.head].ptr, fl[found.head].size * needed)
    IN  AllocOutcome(merged.ptr, RemoveChunk(fl, found.head, t), <<merged>> \o al,
                     nc + 1, fm, FALSE)

\* lines 143-270
AllocCoalesce(fl, fw, al, nc, fm, ts, bs, n) ==
    LET needed == BlocksNeeded(n, bs)
        found == ContiguousSearch(fl, bs, needed)
        t == found.head + found.cnt - 1
        merged == Block(fl[found.head].ptr, fl[found.head].size * needed)
    IN  IF found.cnt < needed /\ found.cursor > Len(fl) /\ fw
        THEN AllocOutcome(NULL, fl, al, nc + 1, fm, TRUE)
        ELSE IF found.cnt < needed
        THEN AllocOutcome(NULL, fl, al, nc + 1, UnlockUnchecked(fm, ts), FALSE)
        ELSE AllocOutcome(merged.ptr, RemoveChunk(fl, found.head, t),
                          <<merged>> \o al, nc + 1, fm, FALSE)

\* lines 98-102 left out: the fast path pops the head of an empty list
Alloc_NoEmptyCheck(fl, fw, al, nc, fm, ts, bs, n) ==
    IF fl = <<>>
    THEN AllocOutcome(NULL, fl, al, IF n <= bs THEN nc ELSE nc + 1, fm, TRUE)
    ELSE IF n <= bs
    THEN AllocFast(fl, al, nc, fm)
    ELSE AllocCoalesce(fl, fw, al, nc, fm, ts, bs, n)

\* lines 97-274
Alloc(fl, fw, al, nc, fm, ts, bs, n) ==
    IF fl = <<>> /\ ~fw
    THEN AllocOutcome(NULL, fl, al, nc, fm, FALSE)
    ELSE IF fl = <<>>
    THEN AllocOutcome(NULL, fl, al, IF n <= bs THEN nc ELSE nc + 1, fm, TRUE)
    ELSE IF n <= bs
    THEN AllocFast(fl, al, nc, fm)
    ELSE AllocCoalesce(fl, fw, al, nc, fm, ts, bs, n)

\* -------------------------------------------------------- mempool_free
FreeOutcome(fl, al, crash) == [free |-> fl, alloc |-> al, crash |-> crash]

\* lines 350-378 left out: a freed chunk re-enters the free list whole
Uncoalesce_Whole(freed, bs) == <<freed>>

\* lines 350-378: the descriptors a freed descriptor re-enters the free list as
Uncoalesce(freed, bs) ==
    IF freed.size = bs
    THEN <<freed>>
    ELSE LET num_blocks == freed.size \div bs
         IN  <<Block(freed.ptr, bs)>> \o
             [i \in 1..(num_blocks - 1) |-> Block(freed.ptr + bs * i, bs)]

\* lines 354-372: the records malloc'd when the descriptor of p is split
Splits(al, bs, p) ==
    IF IndexOf(al, p) = 0 \/ al[IndexOf(al, p)].size = bs
    THEN 0
    ELSE al[IndexOf(al, p)].size \div bs - 1

\* line 397 with the comparison turned round
RECURSIVE InsertCursor_WrongCompare(_, _, _)
InsertCursor_WrongCompare(fl, p, c) ==
    IF c + 1 <= Len(fl) /\ fl[c + 1].ptr > p
    THEN InsertCursor_WrongCompare(fl, p, c + 1)
    ELSE c

\* lines 397-399: the position of the cursor when the walk stops
RECURSIVE InsertCursor(_, _, _)
InsertCursor(fl, p, c) ==
    IF c + 1 <= Len(fl) /\ fl[c + 1].ptr < p
    THEN InsertCursor(fl, p, c + 1)
    ELSE c

\* lines 395-410 left out: the freed chunk always becomes the head
InsertFree_AtHead(fl, fw, al, chunk) ==
    IF fl = <<>>
    THEN FreeOutcome(fl, al, TRUE)
    ELSE FreeOutcome(chunk \o fl, al, FALSE)

\* lines 385-410
InsertFree(fl, fw, al, chunk) ==
    IF fl = <<>>
    THEN \* line 390 reads cursor->ptr through a NULL or indeterminate head
         FreeOutcome(fl, al, TRUE)
    ELSE IF fl[1].ptr > chunk[1].ptr
    THEN FreeOutcome(chunk \o fl, al, FALSE)
    ELSE LET c == InsertCursor(fl, chunk[1].ptr, 1)
         IN  IF c = Len(fl) /\ fw
             THEN FreeOutcome(fl, al, TRUE)
             ELSE FreeOutcome(Slice(fl, 1, c) \o chunk \o Slice(fl, c + 1, Len(fl)),
                              al, FALSE)

\* lines 318-323: the position of the cursor when the walk stops
RECURSIVE UnlinkCursor(_, _, _)
UnlinkCursor(al, p, c) ==
    IF c + 1 <= Len(al) /\ al[c + 1].ptr # p
    THEN UnlinkCursor(al, p, c + 1)
    ELSE c

\* lines 283-416
Free(fl, fw, al, aw, bs, p) ==
    IF p = NULL
    THEN FreeOutcome(fl, al, FALSE)
    ELSE IF al = <<>> /\ ~aw
    THEN FreeOutcome(fl, al, FALSE)
    ELSE IF al = <<>>
    THEN \* line 311 reads cursor->ptr through the indeterminate head
         FreeOutcome(fl, al, TRUE)
    ELSE IF al[1].ptr = p
    THEN InsertFree(fl, fw, Tail(al), Uncoalesce(al[1], bs))
    ELSE LET c == UnlinkCursor(al, p, 1)
         IN  IF c = Len(al)
             THEN \* cursor->next is NULL (line 339 reads freed->next) or
                  \* indeterminate (line 320 reads cursor->next->ptr)
                  FreeOutcome(fl, al, TRUE)
             ELSE InsertFree(fl, fw, Slice(al, 1, c) \o Slice(al, c + 2, Len(al)),
                             Uncoalesce(al[c + 1], bs))

\* ------------------------------------------------- contents of the pool
\* no byte is followed
NoMem == <<>>

\* a byte of the malloc'd region (line 34) nothing was stored to yet
Junk == 0 - 1

\* the last byte of the range is left as it was
Memset_Short(m, dst, v, len) ==
    [a \in DOMAIN m |-> IF dst <= a /\ a < dst + len - 1 THEN v ELSE m[a]]

\* memset(dst, v, len)
Memset(m, dst, v, len) ==
    [a \in DOMAIN m |-> IF dst <= a /\ a < dst + len THEN v ELSE m[a]]

\* one byte too few is copied
Memcpy_Short(m, dst, src, len) ==
    [a \in DOMAIN m |-> IF dst <= a /\ a < dst + len - 1
                        THEN m[src + (a - dst)] ELSE m[a]]

\* memcpy(dst, src, len) between regions that do not overlap
Memcpy(m, dst, src, len) ==
    [a \in DOMAIN m |-> IF dst <= a /\ a < dst + len
                        THEN m[src + (a - dst)] ELSE m[a]]

\* ------------------------------------------------------ mempool_calloc
\* line 433
CallocFill(m, q, len) == IF q = NULL THEN m ELSE Memset(m, q, 0, len)

\* A size_t is 64 bits wide and the numbers of this module stop below 2^31,
\* so a size_t is kept as its four 16-bit limbs, lowest first.
WideOf(n) == <<n % U16, (n \div U16) % U16, 0, 0>>

\* num_members * size as line 424, 430 and 433 compute it: the u_int32_t is
\* converted to size_t and the product is taken modulo 2^64 (num_members is
\* below 2^15 here, which keeps every limb product below 2^31)
MulWide(m, w) ==
    LET c1 == m * w[1]
        c2 == m * w[2] + c1 \div U16
        c3 == m * w[3] + c2 \div U16
        c4 == m * w[4] + c3 \div U16
    IN  <<c1 % U16, c2 % U16, c3 % U16, c4 % U16>>

\* the conversion of a size_t to the u_int32_t parameter of mempool_alloc
\* (line 97): the low 32 bits
Low32(w) == w[1] + U16 * w[2]

\* a byte count of 2^32 or more
Above32(w) == w[3] # 0 \/ w[4] # 0

\* lines 422-437 with size a size_t
CallocWide(fl, fw, al, nc, fm, ts, bs, m, w) ==
    LET bytes == MulWide(m, w)
    IN  IF bytes = WideOf(0)
        THEN AllocOutcome(NULL, fl, al, nc, fm, FALSE)
        ELSE LET r == Alloc(fl, fw, al, nc, fm, ts, bs, Low32(bytes))
             IN  \* line 433: memset through the pointer alloc returned, over
                 \* all of bytes: 2^32 bytes or more run past the pool
                 IF r.ret = NULL \/ Above32(bytes)
                 THEN [r EXCEPT !.crash = TRUE]
                 ELSE r

\* lines 422-437
Calloc(fl, fw, al, nc, fm, ts, bs, m, s) ==
    CallocWide(fl, fw, al, nc, fm, ts, bs, m, WideOf(s))

\* ----------------------------------------------------- mempool_realloc
\* lines 469-483: position of the realloc target, 0 when the walk meets NULL,
\* -1 when it meets the indeterminate link
ReallocTarget(al, aw, p) ==
    IF IndexOf(al, p) # 0 THEN IndexOf(al, p)
    ELSE IF aw THEN 0 - 1 ELSE 0

\* the request is compared with one block, not with what the descriptor
\* records
FitsInPlace_OneBlock(d, n) == block_size >= n

\* line 498: the descriptor already holds the bytes asked for
FitsInPlace(d, n) == d.size >= n

\* realloc_target->size, read at line 507
RecordedSize(al, p) == IF IndexOf(al, p) = 0 THEN 0 ELSE al[IndexOf(al, p)].size

\* line 507, reached when the request does not fit in place: the bytes the
\* old descriptor records are copied to q
ReallocCopy(m, al, p, n, q) ==
    IF IndexOf(al, p) = 0 \/ q = NULL THEN m
    ELSE IF FitsInPlace(al[IndexOf(al, p)], n) THEN m
    ELSE Memcpy(m, q, p, RecordedSize(al, p))

\* lines 443-514
Realloc(fl, fw, al, aw, nc, fm, ts, bs, p, n) ==
    IF al = <<>> /\ ~aw
    THEN AllocOutcome(NULL, fl, al, nc, fm, FALSE)
    ELSE IF p = NULL
    THEN AllocOutcome(NULL, fl, al, nc, fm, FALSE)
    ELSE LET target == ReallocTarget(al, aw, p)
         IN  IF target < 0
             THEN AllocOutcome(NULL, fl, al, nc, fm, TRUE)
             ELSE IF target = 0
             THEN AllocOutcome(NULL, fl, al, nc, fm, FALSE)
             ELSE IF FitsInPlace(al[target], n)
             THEN AllocOutcome(p, fl, al, nc, fm, FALSE)
             ELSE LET r == Alloc(fl, fw, al, nc, fm, ts, bs, n)
                      f == Free(r.free, fw, r.alloc, aw, bs, p)
                  IN  IF r.crash \/ r.ret = NULL
                      THEN \* line 507: memcpy through the pointer alloc returned
                           [r EXCEPT !.crash = TRUE]
                      ELSE AllocOutcome(IF f.crash THEN NULL ELSE r.ret, f.free,
                                        f.alloc, r.coal, r.fmutex, f.crash)

\* ------------------------------------------------------------- actions
\* pointers passed to free and realloc: NULL, the start of every block, the
\* address one past the last block and an address inside the first block
PtrInputs ==
    IF status # "live" THEN {NULL}
    ELSE {NULL, memory_pool_aligned + 1} \cup
         {memory_pool_aligned + i * block_size : i \in 0..(mempool_size \div block_size)}

\* byte counts passed to alloc and realloc: the two sides of every block-count
\* boundary
ReqInputs ==
    {0, 1} \cup {k * block_size + d : k \in 1..MaxReqBlocks, d \in {0, 1}}

\* byte counts passed to realloc: zero, a count every descriptor holds, and
\* counts that make a descriptor of one or two blocks grow
ReallocReqInputs == {0, 1, block_size + 1, 2 * block_size + 1}

\* the process has executed undefined behaviour: nothing of the pool is
\* observable any more, only the call that did it is kept
Crash(call) ==
    /\ status' = "crashed"
    /\ free_list' = <<>>
    /\ allocated_list' = <<>>
    /\ num_coalesced' = 0
    /\ free_mutex' = "undefined"
    /\ allocated_mutex' = "undefined"
    /\ thr' = [t \in Threads |-> IdleThread({})]
    /\ last' = call
    /\ records' = 0
    /\ UNCHANGED <<config, free_wild, allocated_wild, probe, mem>>

AllIdle == \A t \in Threads : thr[t].pc = "idle"

Apply(r, call, m, rec) ==
    /\ status = "live"
    /\ AllIdle
    /\ r.coal <= MaxCoalesced
    /\ IF r.crash
       THEN Crash(call)
       ELSE /\ free_list' = r.free
            /\ allocated_list' = r.alloc
            /\ num_coalesced' = r.coal
            /\ free_mutex' = r.fmutex
            /\ last' = call
            /\ mem' = m
            /\ records' = rec
            /\ UNCHANGED <<status, config, free_wild, allocated_wild,
                           allocated_mutex, thr, probe>>

mempool_alloc(n) ==
    /\ status = "live"
    /\ LET r == Alloc(free_list, free_wild, allocated_list, num_coalesced,
                      free_mutex, thread_safe, block_size, n)
       IN  Apply(r, Call("alloc", n, 0, r.ret), mem,
                 records - Companions(free_list, block_size, n))

mempool_free(p) ==
    /\ status = "live"
    /\ LET f == Free(free_list, free_wild, allocated_list, allocated_wild,
                     block_size, p)
       IN  Apply(AllocOutcome(NULL, f.free, f.alloc, num_coalesced, free_mutex,
                              f.crash),
                 Call("free", p, 0, NULL), mem,
                 records + Splits(allocated_list, block_size, p))

mempool_calloc(m, s) ==
    /\ status = "live"
    /\ LET r == Calloc(free_list, free_wild, allocated_list, num_coalesced,
                       free_mutex, thread_safe, block_size, m, s)
       IN  Apply(r, Call("calloc", m, s, r.ret), CallocFill(mem, r.ret, m * s),
                 records - Companions(free_list, block_size, m * s))

\* mempool_calloc with a size that needs more than 31 bits
mempool_calloc_wide(m, w) ==
    /\ status = "live"
    /\ LET r == CallocWide(free_list, free_wild, allocated_list, num_coalesced,
                           free_mutex, thread_safe, block_size, m, w)
       IN  Apply(r, Call("calloc", m, w, r.ret),
                 CallocFill(mem, r.ret, Low32(MulWide(m, w))),
                 records - Companions(free_list, block_size, Low32(MulWide(m, w))))

mempool_realloc(p, n) ==
    /\ status = "live"
    /\ LET r == Realloc(free_list, free_wild, allocated_list, allocated_wild,
                        num_coalesced, free_mutex, thread_safe, block_size, p, n)
       IN  Apply(r, Call("realloc", p, n, r.ret),
                 ReallocCopy(mem, allocated_list, p, n, r.ret),
                 IF IndexOf(allocated_list, p) = 0
                    \/ FitsInPlace(allocated_list[IndexOf(allocated_list, p)], n)
                 THEN records
                 ELSE records - Companions(free_list, block_size, n)
                              + Splits(allocated_list, block_size, p))

\* lines 522-577
mempool_destroy ==
    /\ status = "live"
    /\ AllIdle
    /\ IF free_list = <<>> /\ ~free_wild /\ allocated_list = <<>> /\ ~allocated_wild
       THEN /\ last' = Call("destroy", 0, 0, 0 - 1)
            /\ UNCHANGED <<status, config, free_list, free_wild, allocated_list,
                           allocated_wild, num_coalesced, free_mutex, allocated_mutex,
                           thr, probe, mem, records>>
       ELSE IF free_wild \/ allocated_wild
       THEN \* lines 534-558 walk into the indeterminate link and free() it
            Crash(Call("destroy", 0, 0, 0))
       ELSE /\ status' = "destroyed"
            /\ free_list' = <<>>
            /\ allocated_list' = <<>>
            /\ free_mutex' = IF thread_safe THEN "uninit" ELSE free_mutex
            /\ allocated_mutex' = IF thread_safe THEN "uninit" ELSE allocated_mutex
            /\ last' = Call("destroy", 0, 0, 1)
            \* lines 534-541 and 551-558: free() for each record met
            /\ records' = records - Len(free_list) - Len(allocated_list)
            /\ UNCHANGED <<config, free_wild, allocated_wild, num_coalesced, thr,
                           probe, mem>>

\* ------------------------------------------- the calls, step by step
\* The same code with every thread's position made explicit.  A step is one
\* access to shared state outside a critical section, one pthread_mutex_lock,
\* or the body of a critical section together with the unlock that ends it;
\* the pop of the fast path is two steps, the load of the head (line 118) and
\* the store of its successor (line 122).
\* Without THREAD_SAFE_REQ a pool is used by one thread.

\* byte counts and member counts the threads ask for
MTReqInputs == {1, block_size + 1}
MTMemberInputs == {0, 1}

Runs(t) == status = "live" /\ (thread_safe \/ t = "T1")

\* the mutex does not keep a second thread out
CanLock_NoExclusion(m) == TRUE

\* if(thread_safe_req) pthread_mutex_lock(m)
CanLock(m) == thread_safe => m = "unlocked"
Locked(m, t) == IF thread_safe THEN t ELSE m
\* the unlock is left out
Unlocked_StillHeld(m) == m

\* if(thread_safe_req) pthread_mutex_unlock(m)
Unlocked(m) == IF thread_safe THEN "unlocked" ELSE m

\* thread t moves on; the pool is left alone
Step(t, rec) ==
    /\ thr' = [thr EXCEPT ![t] = rec]
    /\ UNCHANGED <<status, config, free_list, free_wild, allocated_list,
                   allocated_wild, num_coalesced, free_mutex, allocated_mutex, last, probe, mem, records>>

\* the caller of t's call gets ret: it now holds the pointers in owned
Return(t, ret, owned) == [IdleThread(owned) EXCEPT !.ret = ret]

CrashedBy(t) == Crash(Call(thr[t].op, thr[t].p, thr[t].n, NULL))

\* a call that may coalesce is started only while the counter is below its cap
MayStart(n) == n > block_size => num_coalesced < MaxCoalesced

MT_CallAlloc(t, n) ==
    /\ Runs(t) /\ thr[t].pc = "idle"
    /\ MayStart(n)
    /\ Step(t, [thr[t] EXCEPT !.pc = "a_check", !.op = "alloc", !.n = n, !.ret = 0])

\* lines 422-430
MT_CallCalloc(t, m, sz) ==
    /\ Runs(t) /\ thr[t].pc = "idle"
    /\ MayStart(m * sz)
    /\ IF m * sz = 0
       THEN Step(t, Return(t, NULL, thr[t].owned))
       ELSE Step(t, [thr[t] EXCEPT !.pc = "a_check", !.op = "calloc", !.n = m * sz,
                                   !.ret = 0])

MT_CallFree(t, p) ==
    /\ Runs(t) /\ thr[t].pc = "idle"
    /\ Step(t, [thr[t] EXCEPT !.pc = "f_check", !.op = "free", !.p = p, !.ret = 0,
                              !.owned = @ \ {p}])

MT_CallRealloc(t, p, n) ==
    /\ Runs(t) /\ thr[t].pc = "idle"
    /\ MayStart(n)
    /\ Step(t, [thr[t] EXCEPT !.pc = "r_check", !.op = "realloc", !.p = p, !.n = n,
                              !.ret = 0])

\* lines 98-112 and the load of line 144: free_list is read without free_mutex
MT_AllocCheck(t) ==
    /\ Runs(t) /\ thr[t].pc = "a_check"
    /\ IF free_list = <<>> /\ ~free_wild
       THEN Step(t, [thr[t] EXCEPT !.pc = "a_ret", !.ret = NULL])
       ELSE IF thr[t].n <= block_size
       THEN Step(t, [thr[t] EXCEPT !.pc = "af_lock"])
       ELSE Step(t, [thr[t] EXCEPT !.pc = "a_count", !.tmp = num_coalesced])

\* the store of line 144: num_coalesced is written without any mutex
MT_AllocCount(t) ==
    /\ Runs(t) /\ thr[t].pc = "a_count"
    /\ num_coalesced' = thr[t].tmp + 1
    /\ thr' = [thr EXCEPT ![t] = [@ EXCEPT !.pc = "ac_lock"]]
    /\ UNCHANGED <<status, config, free_list, free_wild, allocated_list,
                   allocated_wild, free_mutex, allocated_mutex, last, probe, mem, records>>

\* lines 115, 152 and 382
MT_LockFree(t) ==
    /\ Runs(t) /\ thr[t].pc \in {"af_lock", "ac_lock", "f_lock2"}
    /\ CanLock(free_mutex)
    /\ free_mutex' = Locked(free_mutex, t)
    /\ thr' = [thr EXCEPT ![t] = [@ EXCEPT !.pc =
                 CASE thr[t].pc = "af_lock" -> "af_pop"
                   [] thr[t].pc = "ac_lock" -> "ac_search"
                   [] OTHER -> "f_insert"]]
    /\ UNCHANGED <<status, config, free_list, free_wild, allocated_list,
                   allocated_wild, num_coalesced, allocated_mutex, last, probe, mem, records>>

\* lines 128, 256, 304 and 466
MT_LockAllocated(t) ==
    /\ Runs(t) /\ thr[t].pc \in {"a_lock2", "f_lock", "r_lock"}
    /\ CanLock(allocated_mutex)
    /\ allocated_mutex' = Locked(allocated_mutex, t)
    /\ thr' = [thr EXCEPT ![t] = [@ EXCEPT !.pc =
                 CASE thr[t].pc = "a_lock2" -> "a_push"
                   [] thr[t].pc = "f_lock" -> "f_unlink"
                   [] OTHER -> "r_search"]]
    /\ UNCHANGED <<status, config, free_list, free_wild, allocated_list,
                   allocated_wild, num_coalesced, free_mutex, last, probe, mem, records>>

\* line 118: allocated = mempool->free_list
MT_AllocPop(t) ==
    /\ Runs(t) /\ thr[t].pc = "af_pop"
    /\ Step(t, [thr[t] EXCEPT !.pc = "af_next",
                              !.held = IF free_list = <<>> THEN <<>>
                                       ELSE <<free_list[1]>>])

\* lines 121-126: mempool->free_list = mempool->free_list->next, and the unlock
MT_AllocNext(t) ==
    /\ Runs(t) /\ thr[t].pc = "af_next"
    /\ IF free_list = <<>>
       THEN \* line 122 reads free_list->next through NULL
            CrashedBy(t)
       ELSE LET r == AllocFast(free_list, <<>>, num_coalesced, free_mutex)
            IN  /\ free_list' = r.free
                /\ free_mutex' = Unlocked(free_mutex)
                /\ thr' = [thr EXCEPT ![t] = [@ EXCEPT !.pc = "a_lock2"]]
                /\ UNCHANGED <<status, config, free_wild, allocated_list,
                               allocated_wild, num_coalesced, allocated_mutex, last, probe, mem, records>>

\* lines 157-252
MT_AllocSearch(t) ==
    /\ Runs(t) /\ thr[t].pc = "ac_search"
    /\ IF free_list = <<>>
       THEN \* line 159 reads cursor->ptr through NULL
            CrashedBy(t)
       ELSE LET r == AllocCoalesce(free_list, free_wild, <<>>, thr[t].tmp, free_mutex,
                                   thread_safe, block_size, thr[t].n)
            IN  IF r.crash
                THEN CrashedBy(t)
                ELSE /\ free_list' = r.free
                     /\ free_mutex' = IF r.ret = NULL THEN r.fmutex
                                      ELSE Unlocked(free_mutex)
                     /\ thr' = [thr EXCEPT ![t] =
                                  IF r.ret = NULL
                                  THEN [@ EXCEPT !.pc = "a_ret", !.ret = NULL]
                                  ELSE [@ EXCEPT !.pc = "a_lock2", !.held = r.alloc]]
                     /\ records' = records - Companions(free_list, block_size,
                                                        thr[t].n)
                     /\ UNCHANGED <<status, config, free_wild, allocated_list,
                                    allocated_wild, num_coalesced, allocated_mutex,
                                    last, probe, mem>>

\* lines 132-141 and 259-269
MT_AllocPush(t) ==
    /\ Runs(t) /\ thr[t].pc = "a_push"
    /\ IF thr[t].held = <<>>
       THEN \* line 132 writes allocated->next through NULL
            CrashedBy(t)
       ELSE /\ allocated_list' = thr[t].held \o allocated_list
            /\ allocated_mutex' = Unlocked(allocated_mutex)
            /\ thr' = [thr EXCEPT ![t] = [@ EXCEPT !.pc = "a_ret", !.held = <<>>,
                                                   !.ret = thr[t].held[1].ptr]]
            /\ UNCHANGED <<status, config, free_list, free_wild, allocated_wild,
                           num_coalesced, free_mutex, last, probe, mem, records>>

\* line 273, and what the caller inside the pool does with the pointer:
\* memset (line 433), memcpy and the call of mempool_free (lines 507-510)
MT_AllocReturn(t) ==
    /\ Runs(t) /\ thr[t].pc = "a_ret"
    /\ IF thr[t].op = "alloc"
       THEN Step(t, Return(t, thr[t].ret,
                           thr[t].owned \cup ({thr[t].ret} \ {NULL})))
       ELSE IF thr[t].ret = NULL
       THEN CrashedBy(t)
       ELSE /\ thr' = [thr EXCEPT ![t] =
                        IF thr[t].op = "calloc"
                        THEN Return(t, thr[t].ret, thr[t].owned \cup {thr[t].ret})
                        ELSE [@ EXCEPT !.pc = "f_check"]]
            /\ mem' = IF thr[t].op = "calloc"
                      THEN Memset(mem, thr[t].ret, 0, thr[t].n)
                      ELSE Memcpy(mem, thr[t].ret, thr[t].p,
                                  RecordedSize(allocated_list, thr[t].p))
            /\ UNCHANGED <<status, config, free_list, free_wild, allocated_list,
                           allocated_wild, num_coalesced, free_mutex,
                           allocated_mutex, last, probe, records>>

\* what mempool_free returns to: the client, or line 513 of mempool_realloc
FreeReturn(t) ==
    IF thr[t].op = "realloc"
    THEN Return(t, thr[t].ret, (thr[t].owned \ {thr[t].p}) \cup {thr[t].ret})
    ELSE Return(t, NULL, thr[t].owned)

\* lines 288, 293 and 416
MT_FreeReturn(t) ==
    /\ Runs(t) /\ thr[t].pc = "f_ret"
    /\ Step(t, FreeReturn(t))

\* lines 285-294: allocated_list is read without allocated_mutex
MT_FreeCheck(t) ==
    /\ Runs(t) /\ thr[t].pc = "f_check"
    /\ IF thr[t].p = NULL \/ (allocated_list = <<>> /\ ~allocated_wild)
       THEN Step(t, [thr[t] EXCEPT !.pc = "f_ret"])
       ELSE Step(t, [thr[t] EXCEPT !.pc = "f_lock"])

\* lines 308-378
MT_FreeUnlink(t) ==
    /\ Runs(t) /\ thr[t].pc = "f_unlink"
    /\ IF allocated_list = <<>>
       THEN \* line 311 reads cursor->ptr through NULL
            CrashedBy(t)
       ELSE LET c == UnlinkCursor(allocated_list, thr[t].p, 1)
                i == IF allocated_list[1].ptr = thr[t].p THEN 1 ELSE c + 1
            IN  IF i > Len(allocated_list)
                THEN \* line 339 reads freed->next through NULL
                     CrashedBy(t)
                ELSE /\ allocated_list' = Slice(allocated_list, 1, i - 1) \o
                                          Slice(allocated_list, i + 1,
                                                Len(allocated_list))
                     /\ allocated_mutex' = Unlocked(allocated_mutex)
                     /\ thr' = [thr EXCEPT ![t] =
                                  [@ EXCEPT !.pc = "f_lock2",
                                            !.held = Uncoalesce(allocated_list[i],
                                                                block_size)]]
                     /\ records' = records + Splits(allocated_list, block_size,
                                                    thr[t].p)
                     /\ UNCHANGED <<status, config, free_list, free_wild,
                                    allocated_wild, num_coalesced, free_mutex, last, probe, mem>>

\* lines 387-415
MT_FreeInsert(t) ==
    /\ Runs(t) /\ thr[t].pc = "f_insert"
    /\ LET r == InsertFree(free_list, free_wild, <<>>, thr[t].held)
       IN  IF r.crash
           THEN CrashedBy(t)
           ELSE /\ free_list' = r.free
                /\ free_mutex' = Unlocked(free_mutex)
                /\ thr' = [thr EXCEPT ![t] = [@ EXCEPT !.pc = "f_ret", !.held = <<>>]]
                /\ UNCHANGED <<status, config, free_wild, allocated_list,
                               allocated_wild, num_coalesced, allocated_mutex, last, probe, mem, records>>

\* lines 445-459: allocated_list is read without allocated_mutex
MT_ReallocCheck(t) ==
    /\ Runs(t) /\ thr[t].pc = "r_check"
    /\ IF (allocated_list = <<>> /\ ~allocated_wild) \/ thr[t].p = NULL
       THEN Step(t, Return(t, NULL, thr[t].owned))
       ELSE Step(t, [thr[t] EXCEPT !.pc = "r_lock"])

\* lines 470-504
MT_ReallocSearch(t) ==
    /\ Runs(t) /\ thr[t].pc = "r_search"
    /\ LET target == ReallocTarget(allocated_list, allocated_wild, thr[t].p)
       IN  IF target < 0
           THEN CrashedBy(t)
           ELSE /\ allocated_mutex' = Unlocked(allocated_mutex)
                /\ thr' = [thr EXCEPT ![t] =
                             IF target = 0
                             THEN Return(t, NULL, thr[t].owned)
                             ELSE IF FitsInPlace(allocated_list[target], thr[t].n)
                             THEN Return(t, thr[t].p, thr[t].owned)
                             ELSE [@ EXCEPT !.pc = "a_check"]]
                /\ UNCHANGED <<status, config, free_list, free_wild, allocated_list,
                               allocated_wild, num_coalesced, free_mutex, last, probe, mem, records>>

InitPool ==
    /\ status = "uninit"
    /\ mempool_size = 0
    /\ block_size = 0
    /\ thread_safe = FALSE
    /\ memory_pool_original = NULL
    /\ memory_pool_aligned = NULL
    /\ free_list = <<>>
    /\ free_wild = FALSE
    /\ allocated_list = <<>>
    /\ allocated_wild = FALSE
    /\ num_coalesced = 0
    /\ free_mutex = "uninit"
    /\ allocated_mutex = "uninit"
    /\ last = Call("none", 0, 0, 0)
    /\ thr = [t \in Threads |-> IdleThread({})]
    /\ mem = NoMem
    /\ records = 0

\* no call on a large pool is being looked at
NoProbe ==
    [blocks |-> 0, out |-> {}, n |-> 0, done |-> FALSE, ret |-> NULL, size |-> 0,
     left |-> 0]

Init == InitPool /\ probe = NoProbe

Next ==
    \/ \E S \in SizeInputs, B \in BlockSizeInputs, ts \in BOOLEAN,
          orig \in OrigInputs, fw \in BOOLEAN, aw \in BOOLEAN :
            mempool_init(S, B, ts, orig, fw, aw)
    \/ \E n \in ReqInputs : mempool_alloc(n)
    \/ \E p \in PtrInputs : mempool_free(p)
    \/ \E m \in 0..MaxMembers, s \in MemberSizeInputs : mempool_calloc(m, s)
    \/ \E p \in PtrInputs, n \in ReallocReqInputs : mempool_realloc(p, n)
    \/ mempool_destroy

Spec == Init /\ [][Next]_vars

\* the pools the threads share
MTInit(S, B, ts) == mempool_init(S, B, ts, 16, FALSE, FALSE)

NextMT ==
    \/ \E ts \in BOOLEAN : MTInit(8 * MTBlocks, 8, ts)
    \/ \E t \in Threads :
          \/ \E n \in MTReqInputs : MT_CallAlloc(t, n)
          \/ \E m \in MTMemberInputs : MT_CallCalloc(t, m, 8)
          \/ \E p \in thr[t].owned : MT_CallFree(t, p)
          \/ \E p \in thr[t].owned, n \in MTReqInputs : MT_CallRealloc(t, p, n)
          \/ MT_AllocCheck(t)
          \/ MT_AllocCount(t)
          \/ MT_LockFree(t)
          \/ MT_LockAllocated(t)
          \/ MT_AllocPop(t)
          \/ MT_AllocNext(t)
          \/ MT_AllocSearch(t)
          \/ MT_AllocPush(t)
          \/ MT_AllocReturn(t)
          \/ MT_FreeCheck(t)
          \/ MT_FreeUnlink(t)
          \/ MT_FreeInsert(t)
          \/ MT_FreeReturn(t)
          \/ MT_ReallocCheck(t)
          \/ MT_ReallocSearch(t)

SpecMT == Init /\ [][NextMT]_vars

\* ------------------------------------- mempool_alloc on a large pool
\* The coalescing path counts a run of free blocks in an u_int16_t, so the
\* pools that matter hold about 2^16 blocks.  A behaviour here is one call:
\* probe says which pool it is made on (blocks of ProbeBlockSize bytes from
\* ProbeOrigin on, the blocks whose numbers are in out vended one by one), how
\* many bytes it asks for, and, once done, what mempool_alloc returned, the
\* size of the descriptor it pushed and the length of the free list it left.
ProbeBlockSize == 8
ProbeOrigin == 16
ProbeBlockInputs == {U16, U16 + 2}
ProbeReqInputs ==
    {ProbeBlockSize * (U16 - 1), ProbeBlockSize * (U16 - 1) + 1, ProbeBlockSize * U16,
     ProbeBlockSize * U16 + 1}

ProbeInputs ==
    {[NoProbe EXCEPT !.blocks = N, !.out = o, !.n = n] :
        N \in ProbeBlockInputs, o \in SUBSET (0..(MaxProbeOut - 1)),
        n \in ProbeReqInputs}

\* the free list of the pool of N blocks after the blocks in out were vended
ProbeFreeList(N, out) ==
    SelectSeq(InitFreeList(ProbeOrigin, N, ProbeBlockSize),
              LAMBDA d : (d.ptr - ProbeOrigin) \div ProbeBlockSize \notin out)

ProbeAllocatedList(out) ==
    SelectSeq(InitFreeList(ProbeOrigin, MaxProbeOut, ProbeBlockSize),
              LAMBDA d : (d.ptr - ProbeOrigin) \div ProbeBlockSize \in out)

ProbeAlloc ==
    /\ probe.blocks > 0
    /\ ~probe.done
    /\ \E fl \in {ProbeFreeList(probe.blocks, probe.out)} :
       \E r \in {Alloc(fl, FALSE, ProbeAllocatedList(probe.out), 0, "unlocked", TRUE,
                       ProbeBlockSize, probe.n)} :
          probe' = [probe EXCEPT !.done = TRUE,
                                 !.ret = r.ret,
                                 !.size = IF r.ret = NULL THEN 0 ELSE r.alloc[1].size,
                                 !.left = Len(r.free)]
    /\ UNCHANGED <<status, config, free_list, free_wild, allocated_list,
                   allocated_wild, num_coalesced, free_mutex, allocated_mutex, last,
                   thr, mem, records>>

InitProbe == InitPool /\ probe \in ProbeInputs

NextProbe == ProbeAlloc

SpecProbe == InitProbe /\ [][NextProbe]_vars

\* ------------------------------------------------------------ properties
Live == status = "live"

Ptrs(l) == {l[i].ptr : i \in 1..Len(l)}

Disjoint(d, e) == d.ptr + d.size <= e.ptr \/ e.ptr + e.size <= d.ptr

\* the free list the pool had when mempool_init returned
FreeListAtInit ==
    InitFreeList(memory_pool_aligned, mempool_size \div block_size, block_size)

\* positions at which a window of k address-contiguous free descriptors starts
Windows(fl, k, bs) ==
    {i \in 1..Len(fl) :
        /\ i + k - 1 <= Len(fl)
        /\ \A j \in 1..(k - 1) : fl[i + j].ptr = fl[i + j - 1].ptr + bs}

FirstWindow(fl, k, bs) ==
    CHOOSE i \in Windows(fl, k, bs) : \A j \in Windows(fl, k, bs) : i <= j

\* l without the descriptors in positions lo..hi
Without(l, lo, hi) == Slice(l, 1, lo - 1) \o Slice(l, hi + 1, Len(l))

\* C1: while the pool is live, the half-open ranges [ptr, ptr + size) of any
\* two distinct descriptors on the allocated list (the outstanding vended
\* regions) are disjoint.
C1_NoOverlap ==
    Live => \A i, j \in 1..Len(allocated_list) :
                i # j => Disjoint(allocated_list[i], allocated_list[j])

\* two outstanding regions that touch, the upper one coalesced
C1_Witness ==
    /\ Live
    /\ \E i, j \in 1..Len(allocated_list) :
          /\ allocated_list[i].ptr + allocated_list[i].size = allocated_list[j].ptr
          /\ allocated_list[j].size > block_size

\* C2: while the pool is live and, in thread-safe mode, no thread holds
\* free_mutex, iterating the free list from its head yields strictly
\* increasing usable pointers.
C2_FreeListOrdered ==
    (Live /\ (thread_safe => free_mutex = "unlocked")) =>
        \A i \in 1..(Len(free_list) - 1) : free_list[i].ptr < free_list[i + 1].ptr

\* in thread-safe mode one thread has just put a block back strictly inside
\* the free list while the other is between the emptiness test of its alloc
\* and the lock
C2_Witness ==
    /\ Live
    /\ thread_safe
    /\ free_mutex = "unlocked"
    /\ \E t, u \in Threads :
          /\ thr[t].pc = "f_ret"
          /\ thr[t].op = "free"
          /\ thr[u].pc = "af_lock"
          /\ \E i \in 2..(Len(free_list) - 1) : free_list[i].ptr = thr[t].p

\* C3: freeing the only outstanding allocation returns normally and leaves
\* the free list exactly as mempool_init built it (N descriptors of
\* block_size bytes at the same addresses in the same order) and the
\* allocated list empty.
C3_ConservationAtRest ==
    [][(/\ Live
        /\ last'.op = "free"
        /\ Len(allocated_list) = 1
        /\ last'.a = allocated_list[1].ptr)
       => (/\ status' = "live"
           /\ allocated_list' = <<>>
           /\ free_list' = FreeListAtInit)]_vars

\* C4: every pointer vended by alloc, calloc or realloc is congruent to 0
\* modulo 8.
C4_VendedAligned ==
    Live => \A i \in 1..Len(allocated_list) : allocated_list[i].ptr % 8 = 0

\* C5: a pointer p returned by alloc(n) heads a descriptor of at least n bytes
\* and [p, p + n) lies inside the backing region [original, original + S) and
\* inside [aligned, aligned + N * block_size).
C5_Containment ==
    (Live /\ last.op = "alloc" /\ last.ret # NULL) =>
        /\ allocated_list # <<>>
        /\ allocated_list[1].ptr = last.ret
        /\ allocated_list[1].size >= last.a
        /\ memory_pool_original <= last.ret
        /\ last.ret + last.a <= memory_pool_original + mempool_size
        /\ memory_pool_aligned <= last.ret
        /\ last.ret + last.a <=
               memory_pool_aligned + (mempool_size \div block_size) * block_size

\* an alloc of several blocks has returned the region that ends the pool
C5_Witness ==
    /\ Live
    /\ last.op = "alloc"
    /\ last.ret # NULL
    /\ last.a > block_size
    /\ last.a % block_size # 0
    /\ last.ret + BlocksNeeded(last.a, block_size) * block_size =
           memory_pool_aligned + (mempool_size \div block_size) * block_size

\* C6: alloc(n) with n <= block_size on a non-empty free list returns the
\* smallest usable address on the free list, removes exactly that descriptor
\* from the free list and puts it on the allocated list.
C6_FastPathLowest ==
    [][(/\ Live
        /\ last'.op = "alloc"
        /\ last'.a <= block_size
        /\ free_list # <<>>)
       => (/\ status' = "live"
           /\ \A q \in Ptrs(free_list) : last'.ret <= q
           /\ \E i \in 1..Len(free_list) :
                 /\ free_list[i].ptr = last'.ret
                 /\ free_list' = Without(free_list, i, i)
                 /\ allocated_list' = <<free_list[i]>> \o allocated_list)]_vars

\* a single-block alloc has returned a block that an earlier free put back
\* below the rest of the free list
C6_Witness ==
    /\ Live
    /\ last.op = "alloc"
    /\ last.a <= block_size
    /\ last.ret = memory_pool_aligned
    /\ Len(allocated_list) >= 3
    /\ free_list # <<>>

\* C7: alloc(n) with n > block_size and k = ceil(n / block_size), on a free
\* list that holds a window of k address-contiguous descriptors, returns the
\* head address of the first such window, removes exactly those k descriptors
\* from the free list and pushes one descriptor of k * block_size bytes with
\* that address on the allocated list.
C7_FirstContiguousRun ==
    [][(/\ Live
        /\ last'.op = "alloc"
        /\ last'.a > block_size
        /\ Windows(free_list, BlocksNeeded(last'.a, block_size), block_size) # {})
       => LET k == BlocksNeeded(last'.a, block_size)
              h == FirstWindow(free_list, k, block_size)
          IN  /\ status' = "live"
              /\ last'.ret = free_list[h].ptr
              /\ free_list' = Without(free_list, h, h + k - 1)
              /\ allocated_list' =
                     <<Block(free_list[h].ptr, k * block_size)>> \o allocated_list]_vars

\* a coalescing alloc has skipped a free block that had no free neighbour and
\* taken a later run
C7_Witness ==
    /\ Live
    /\ last.op = "alloc"
    /\ last.a > block_size
    /\ last.ret # NULL
    /\ free_list # <<>>
    /\ free_list[1].ptr < last.ret

\* C8: free(p) with p non-null and not the usable pointer of any descriptor
\* on the (non-empty) allocated list returns normally and leaves both lists
\* unchanged.
C8_UnknownFreeNoop ==
    [][(/\ Live
        /\ last'.op = "free"
        /\ last'.a # NULL
        /\ allocated_list # <<>>
        /\ last'.a \notin Ptrs(allocated_list))
       => (/\ status' = "live"
           /\ free_list' = free_list
           /\ allocated_list' = allocated_list)]_vars

\* C9: alloc on a pool whose free list is empty (its head is NULL) returns
\* NULL and leaves both lists unchanged.
C9_EmptyFreeList ==
    [][(/\ Live
        /\ last'.op = "alloc"
        /\ free_list = <<>>
        /\ ~free_wild)
       => (/\ status' = "live"
           /\ last'.ret = NULL
           /\ free_list' = free_list
           /\ allocated_list' = allocated_list)]_vars

\* every block of the pool is out as a single-block allocation and one more
\* alloc has returned NULL
C9_Witness ==
    /\ Live
    /\ last.op = "alloc"
    /\ last.ret = NULL
    /\ free_list = <<>>
    /\ mempool_size \div block_size >= 2
    /\ Len(allocated_list) = mempool_size \div block_size

\* C10: alloc(n) with n > block_size on a free list that holds no window of
\* ceil(n / block_size) address-contiguous descriptors returns NULL and
\* leaves both lists unchanged.
C10_Fragmentation ==
    [][(/\ Live
        /\ last'.op = "alloc"
        /\ last'.a > block_size
        /\ free_list # <<>>
        /\ Windows(free_list, BlocksNeeded(last'.a, block_size), block_size) = {})
       => (/\ status' = "live"
           /\ last'.ret = NULL
           /\ free_list' = free_list
           /\ allocated_list' = allocated_list)]_vars

\* C7 on a pool of about 2^16 blocks: when the free list holds a window of
\* k = ceil(n / block_size) address-contiguous descriptors, alloc(n) returns
\* the head address of the first such window, pushes one descriptor of
\* k * block_size bytes and leaves k descriptors fewer on the free list.
C7_FirstContiguousRunLarge ==
    LET fl == ProbeFreeList(probe.blocks, probe.out)
        k == BlocksNeeded(probe.n, ProbeBlockSize)
    IN  (probe.done /\ Windows(fl, k, ProbeBlockSize) # {}) =>
            /\ probe.ret = fl[FirstWindow(fl, k, ProbeBlockSize)].ptr
            /\ probe.size = k * ProbeBlockSize
            /\ probe.left = Len(fl) - k

\* an alloc has failed although the free blocks together hold the bytes asked
C10_Witness ==
    /\ Live
    /\ last.op = "alloc"
    /\ last.ret = NULL
    /\ last.a > block_size
    /\ Len(free_list) * block_size >= last.a

\* C11: alloc(n) with n greater than the size of the pool, on a free list that
\* is not empty, returns NULL and leaves both lists unchanged.
C11_LargerThanPool ==
    [][(/\ Live
        /\ last'.op = "alloc"
        /\ last'.a > mempool_size
        /\ free_list # <<>>)
       => (/\ status' = "live"
           /\ last'.ret = NULL
           /\ free_list' = free_list
           /\ allocated_list' = allocated_list)]_vars

\* more bytes than the pool has were asked for while every block was free
C11_Witness ==
    /\ Live
    /\ last.op = "alloc"
    /\ last.a > mempool_size
    /\ last.ret = NULL
    /\ Len(free_list) >= 2
    /\ Len(free_list) = mempool_size \div block_size

\* the smallest multiple of 8 that is not below B
RoundUp8(B) == ((B + 7) \div 8) * 8

\* C12: init(S, B, mode) returns no handle when S = 0, B = 0 or B >= S, and
\* returns a pool handle for every other (S, B).
C12_InitAcceptance ==
    [][(status = "uninit")
       => IF last'.a = 0 \/ last'.b = 0 \/ last'.b >= last'.a
          THEN status' = "uninit" /\ last'.ret = 0
          ELSE status' = "live" /\ last'.ret = 1]_vars

\* C13: right after a successful init(S, B) the allocated list is empty and
\* the free list holds exactly N = S / B_rounded descriptors, the i-th
\* (0-based) with pointer aligned_base + i * B_rounded and size B_rounded.
C13_ListsAfterInit ==
    (status = "live" /\ last.op = "init" /\ last.ret = 1)
    => LET rounded == RoundUp8(last.b)
       IN  /\ allocated_list = <<>> /\ ~allocated_wild
           /\ ~free_wild
           /\ Len(free_list) = last.a \div rounded
           /\ \A i \in 1..Len(free_list) :
                  free_list[i] = Block(memory_pool_aligned + (i - 1) * rounded,
                                       rounded)

\* C14: the configured block size is the smallest multiple of 8 that is not
\* below the accepted B: block_size % 8 = 0 and B <= block_size < B + 8.
C14_BlockSizeRoundedUp ==
    (status = "live" /\ last.op = "init" /\ last.ret = 1)
    => (/\ block_size % 8 = 0
        /\ last.b <= block_size
        /\ block_size < last.b + 8)

C17_ZeroBytesRejected ==
    [][(/\ Live
        /\ \/ last'.op = "calloc" /\ last'.a * last'.b = 0
           \/ last'.op = "realloc" /\ last'.b = 0)
       => (/\ status' = "live"
           /\ last'.ret = NULL
           /\ free_list' = free_list
           /\ allocated_list' = allocated_list)]_vars

\* C18: realloc(p, n) returns NULL and leaves both lists unchanged when the
\* allocated list is empty, when p is NULL, or when p is not the pointer of
\* any descriptor on the allocated list.
C18_ReallocNothingToDo ==
    [][(/\ Live
        /\ last'.op = "realloc"
        /\ \/ allocated_list = <<>>
           \/ last'.a = NULL
           \/ IndexOf(allocated_list, last'.a) = 0)
       => (/\ status' = "live"
           /\ last'.ret = NULL
           /\ free_list' = free_list
           /\ allocated_list' = allocated_list)]_vars

\* what mempool_alloc(n) would do in the current state
AllocNow(n) ==
    Alloc(free_list, free_wild, allocated_list, num_coalesced, free_mutex,
          thread_safe, block_size, n)

\* C19: when realloc(p, n) has to grow and the allocation inside it fails for
\* lack of capacity, realloc returns NULL: nothing is written through the
\* NULL pointer and the call completes normally.
C19_ReallocGrowFails ==
    [][(/\ Live
        /\ last'.op = "realloc"
        /\ IndexOf(allocated_list, last'.a) # 0
        /\ allocated_list[IndexOf(allocated_list, last'.a)].size < last'.b
        /\ ~AllocNow(last'.b).crash
        /\ AllocNow(last'.b).ret = NULL)
       => (status' = "live" /\ last'.ret = NULL)]_vars

\* C20: calloc(m, s) with m * s > 0 returns NULL, without writing through it,
\* whenever alloc(m * s) returns NULL.
C20_CallocAllocFails ==
    [][(/\ Live
        /\ last'.op = "calloc"
        /\ last'.a * last'.b > 0
        /\ ~AllocNow(last'.a * last'.b).crash
        /\ AllocNow(last'.a * last'.b).ret = NULL)
       => (status' = "live" /\ last'.ret = NULL)]_vars

\* ------------------------------- the contents under a sequential client
\* One client allocates from a pool of MemBlocks blocks of 8 bytes, stores to
\* what it was given, resizes and frees it; mem follows every byte of the
\* aligned region.
MemBlockSize == 8
MemOrigin == 16
MemSize == MemBlockSize * MemBlocks
MemReqInputs == {1, block_size + 1}
MemReallocInputs == {1, block_size + 1, 2 * block_size + 1}

\* the value the client stores at address a
Stamp(a) == (a % 255) + 1

\* the addresses that hold a byte the client stored
Stored == {a \in DOMAIN mem : mem[a] > 0}

\* the client stores to every byte of the allocation at p
client_write(p) ==
    /\ status = "live"
    /\ AllIdle
    /\ IndexOf(allocated_list, p) # 0
    /\ Cardinality(Stored) < MaxStoredBlocks * block_size
    /\ mem' = [a \in DOMAIN mem |->
                 IF p <= a /\ a < p + RecordedSize(allocated_list, p)
                 THEN Stamp(a) ELSE mem[a]]
    /\ last' = Call("write", p, 0, 0)
    /\ UNCHANGED <<status, config, free_list, free_wild, allocated_list,
                   allocated_wild, num_coalesced, free_mutex, allocated_mutex,
                   thr, probe, records>>

\* the state mempool_init(MemSize, MemBlockSize, THREAD_SAFE_NOT_REQ) leaves
\* on a handle whose list heads were NULL
InitMem ==
    /\ status = "live"
    /\ mempool_size = MemSize
    /\ block_size = RoundedBlockSize(MemBlockSize)
    /\ thread_safe = FALSE
    /\ memory_pool_original = MemOrigin
    /\ memory_pool_aligned = AlignedPtr(MemOrigin)
    /\ free_list = InitFreeList(AlignedPtr(MemOrigin),
                                NumBlocks(MemSize, MemBlockSize),
                                RoundedBlockSize(MemBlockSize))
    /\ free_wild = FALSE
    /\ allocated_list = <<>>
    /\ allocated_wild = FALSE
    /\ num_coalesced = 0
    /\ free_mutex = "uninit"
    /\ allocated_mutex = "uninit"
    /\ last = Call("init", MemSize, MemBlockSize, 1)
    /\ thr = [t \in Threads |-> IdleThread({})]
    /\ probe = NoProbe
    /\ mem = [a \in AlignedPtr(MemOrigin)..(AlignedPtr(MemOrigin) + MemSize - 1)
                |-> Junk]
    /\ records = NumBlocks(MemSize, MemBlockSize)

NextMem ==
    \/ \E n \in MemReqInputs : mempool_alloc(n)
    \/ \E p \in Ptrs(allocated_list) : mempool_free(p)
    \/ \E p \in Ptrs(allocated_list), n \in MemReallocInputs : mempool_realloc(p, n)
    \/ \E p \in Ptrs(allocated_list) : client_write(p)

SpecMem == InitMem /\ [][NextMem]_vars

\* C16: a successful realloc(p, n) with n above the old size returns q # p
\* whose first old_size bytes equal the bytes p had just before the call; q is
\* on the allocated list with size >= n, and p is no longer on the allocated
\* list: its blocks are back on the free list.
C16_ReallocGrows ==
    [][(/\ Live
        /\ last'.op = "realloc"
        /\ IndexOf(allocated_list, last'.a) # 0
        /\ last'.b > RecordedSize(allocated_list, last'.a)
        /\ status' = "live"
        /\ last'.ret # NULL)
       => LET p == last'.a
              q == last'.ret
              old == RecordedSize(allocated_list, p)
          IN  /\ q # p
              /\ \A i \in 0..(old - 1) : mem'[q + i] = mem[p + i]
              /\ IndexOf(allocated_list', q) # 0
              /\ RecordedSize(allocated_list', q) >= last'.b
              /\ IndexOf(allocated_list', p) = 0
              /\ \A k \in 0..((old \div block_size) - 1) :
                     /\ IndexOf(free_list', p + k * block_size) # 0
                     /\ RecordedSize(free_list', p + k * block_size) = block_size]_vars

\* a realloc moved an allocation the client had stored to: the first byte
\* at the new place is the one stored at the old place
C16_Witness ==
    /\ Live
    /\ last.op = "realloc"
    /\ last.ret # NULL
    /\ last.ret # last.a
    /\ IndexOf(allocated_list, last.ret) # 0
    /\ RecordedSize(allocated_list, last.ret) >= last.b
    /\ mem[last.ret] = Stamp(last.a)

\* ------------------------------------- calloc under a sequential client
\* One client allocates from a pool of ZeroBlocks blocks of 8 bytes with
\* alloc and calloc, stores to what it was given and frees it, so that calloc
\* is handed blocks that hold bytes of an earlier use.
ZeroSize == MemBlockSize * ZeroBlocks
ZeroMemberSizeInputs == {4, 8}

\* the state mempool_init(ZeroSize, MemBlockSize, THREAD_SAFE_NOT_REQ) leaves
\* on a handle whose list heads were NULL
InitZero ==
    /\ status = "live"
    /\ mempool_size = ZeroSize
    /\ block_size = RoundedBlockSize(MemBlockSize)
    /\ thread_safe = FALSE
    /\ memory_pool_original = MemOrigin
    /\ memory_pool_aligned = AlignedPtr(MemOrigin)
    /\ free_list = InitFreeList(AlignedPtr(MemOrigin),
                                NumBlocks(ZeroSize, MemBlockSize),
                                RoundedBlockSize(MemBlockSize))
    /\ free_wild = FALSE
    /\ allocated_list = <<>>
    /\ allocated_wild = FALSE
    /\ num_coalesced = 0
    /\ free_mutex = "uninit"
    /\ allocated_mutex = "uninit"
    /\ last = Call("init", ZeroSize, MemBlockSize, 1)
    /\ thr = [t \in Threads |-> IdleThread({})]
    /\ probe = NoProbe
    /\ mem = [a \in AlignedPtr(MemOrigin)..(AlignedPtr(MemOrigin) + ZeroSize - 1)
                |-> Junk]
    /\ records = NumBlocks(ZeroSize, MemBlockSize)

NextZero ==
    \/ \E n \in MemReqInputs : mempool_alloc(n)
    \/ \E p \in Ptrs(allocated_list) : mempool_free(p)
    \/ \E m \in 1..MaxMembers, s \in ZeroMemberSizeInputs : mempool_calloc(m, s)
    \/ \E p \in Ptrs(allocated_list) : client_write(p)

SpecZero == InitZero /\ [][NextZero]_vars

\* ------------------------------------------ calloc of very large members
\* The pool of SpecZero under a client that also passes calloc member sizes
\* of 2^32 bytes and more: 8, 2^32, 2^32 + 8 and 2^63.
WideSizeInputs == {WideOf(8), <<0, 0, 1, 0>>, <<8, 0, 1, 0>>, <<0, 0, 0, 32768>>}

NextWide ==
    \/ \E n \in MemReqInputs : mempool_alloc(n)
    \/ \E p \in Ptrs(allocated_list) : mempool_free(p)
    \/ \E m \in 1..MaxMembers, w \in WideSizeInputs : mempool_calloc_wide(m, w)

SpecWide == InitZero /\ [][NextWide]_vars

\* C21: after a successful calloc(m, s) every byte of [p, p + m * s) is zero,
\* whatever those blocks held before, and no byte outside that range was
\* modified.
C21_CallocZeroes ==
    [][(/\ Live
        /\ last'.op = "calloc"
        /\ status' = "live"
        /\ last'.ret # NULL)
       => \A a \in DOMAIN mem :
             IF last'.ret <= a /\ a < last'.ret + last'.a * last'.b
             THEN mem'[a] = 0
             ELSE mem'[a] = mem[a]]_vars

\* calloc(1, 4) was handed a block the client had stored to: its first four
\* bytes are zero, the other four are still the client's
C21_Witness ==
    /\ Live
    /\ last.op = "calloc"
    /\ last.ret # NULL
    /\ last.a * last.b = 4
    /\ \A i \in 0..3 : mem[last.ret + i] = 0
    /\ \A i \in 4..7 : mem[last.ret + i] = Stamp(last.ret + i)

\* C22: destroy returns the failure flag and releases nothing when the free
\* list and the allocated list are both empty; otherwise it releases every
\* descriptor of both lists, the backing region and the handle, and returns
\* the success flag.
C22_Destroy ==
    [][(Live /\ last'.op = "destroy")
       => IF free_list = <<>> /\ allocated_list = <<>>
          THEN /\ last'.ret = 0 - 1
               /\ status' = "live"
               /\ UNCHANGED <<free_list, allocated_list, config>>
          ELSE /\ last'.ret = 1
               /\ status' = "destroyed"
               /\ free_list' = <<>>
               /\ allocated_list' = <<>>]_vars

\* the pointers thread t has been handed and has not given back: those its
\* client holds, less the one it passed to the realloc in progress, and the
\* one the call in progress is about to return
Vended(t) ==
    (thr[t].owned \ (IF thr[t].op = "realloc" THEN {thr[t].p} ELSE {}))
    \cup (IF thr[t].pc # "idle" /\ thr[t].ret # NULL THEN {thr[t].ret} ELSE {})

\* the region behind a vended pointer
Region(p) ==
    Block(p, IF IndexOf(allocated_list, p) = 0 THEN block_size
             ELSE RecordedSize(allocated_list, p))

\* C23: in thread-safe mode, however concurrent alloc calls of different
\* threads interleave, no two of them return the same pointer or overlapping
\* regions while both are outstanding.
C23_NoDoubleVend ==
    (Live /\ thread_safe)
    => \A t \in Threads, u \in Threads :
          t # u => \A p \in Vended(t), q \in Vended(u) :
                      Disjoint(Region(p), Region(q))

\* two alloc calls that ran at the same time are both about to return
C23_Witness ==
    /\ Live /\ thread_safe
    /\ \A t \in Threads :
          thr[t].op = "alloc" /\ thr[t].pc = "a_ret" /\ thr[t].ret # NULL

\* C24: once free(p) has returned, p can be vended again by an alloc that
\* starts afterwards; in particular, when every block of the pool was
\* allocated and p is then freed, the next alloc(n <= block_size) returns p,
\* not NULL.
C24_FreedIsVendable ==
    [][(/\ Live
        /\ last'.op = "free"
        /\ IndexOf(allocated_list, last'.a) # 0)
       => (/\ status' = "live"
           /\ last'.a \in Ptrs(free_list')
           /\ (free_list = <<>> /\ ~free_wild) => (AllocNow(1))'.ret = last'.a)]_vars

\* C25: in thread-safe mode no thread holds free_mutex and allocated_mutex at
\* the same time, at any point of alloc, calloc, realloc or free, error paths
\* included.
C25_OneMutexAtATime ==
    (Live /\ thread_safe)
    => \A t \in Threads : ~(free_mutex = t /\ allocated_mutex = t)

\* both mutexes are held, each by another thread
C25_Witness ==
    /\ Live /\ thread_safe
    /\ free_mutex \in Threads
    /\ allocated_mutex \in Threads
    /\ free_mutex # allocated_mutex

\* the positions whose step reads or writes the free list or its head
FreeListSteps == {"a_check", "af_pop", "af_next", "ac_search", "f_insert"}

\* the positions whose step reads or writes the allocated list or its head
\* (line 285 returns before line 291 reads the head when ptr is NULL)
AllocatedListSteps == {"f_check", "r_check", "a_push", "f_unlink", "r_search"}

\* thread t takes the step
Acts(t) == thr'[t] # thr[t]

\* C26: in thread-safe mode every read or write of the free list or its head
\* is made by a thread holding free_mutex, and every read or write of the
\* allocated list or its head by a thread holding allocated_mutex, the
\* emptiness checks at the start of alloc, free and realloc included.
C26_ListsUnderMutex ==
    [][(Live /\ thread_safe /\ status' = "live")
       => \A t \in Threads :
             Acts(t)
             => /\ thr[t].pc \in FreeListSteps => free_mutex = t
                /\ (thr[t].pc \in AllocatedListSteps
                    /\ ~(thr[t].pc = "f_check" /\ thr[t].p = NULL))
                   => allocated_mutex = t]_vars

\* ----------------------------------------------- the threads, scheduled
\* a step of thread t inside a call it has started
MT_Progress(t) ==
    \/ MT_AllocCheck(t)
    \/ MT_AllocCount(t)
    \/ MT_LockFree(t)
    \/ MT_LockAllocated(t)
    \/ MT_AllocPop(t)
    \/ MT_AllocNext(t)
    \/ MT_AllocSearch(t)
    \/ MT_AllocPush(t)
    \/ MT_AllocReturn(t)
    \/ MT_FreeCheck(t)
    \/ MT_FreeUnlink(t)
    \/ MT_FreeInsert(t)
    \/ MT_FreeReturn(t)
    \/ MT_ReallocCheck(t)
    \/ MT_ReallocSearch(t)

\* every thread that can keep taking steps of its call does take them, and a
\* thread that finds a mutex free again and again gets it
SpecMTFair ==
    Init /\ [][NextMT]_vars /\ \A t \in Threads : SF_vars(MT_Progress(t))

\* C27: in thread-safe mode, with threads calling alloc, calloc, realloc and
\* free at the same time, no state is a deadlock, a call has released every
\* mutex it took when it returns, and under fair scheduling every call that
\* was started returns.
C27_CallsReturn ==
    /\ [](\A t \in Threads :
            (Live /\ thread_safe /\ thr[t].pc = "idle")
            => (free_mutex # t /\ allocated_mutex # t))
    /\ [](\A t \in Threads :
            (Live /\ thread_safe /\ thr[t].pc # "idle")
            => \E u \in Threads : ENABLED MT_Progress(u))
    /\ \A t \in Threads :
          (Live /\ thread_safe /\ thr[t].pc # "idle")
          ~> (Live /\ thr[t].pc = "idle")

\* ------------------------------------------------- without thread safety
\* C28: on a pool initialised without thread safety no operation locks,
\* unlocks or otherwise touches either mutex, on any path that returns, the
\* error paths of alloc and free included.
C28_NoMutexWithoutThreadSafety ==
    [][(Live /\ ~thread_safe /\ status' # "crashed")
          => (free_mutex' = free_mutex /\ allocated_mutex' = allocated_mutex)]_vars

\* what mempool_free(p) would do after the outcome a of an alloc
FreeAfter(a, p) ==
    Free(a.free, free_wild, a.alloc, allocated_wild, block_size, p)

\* C29: single-threaded round trip: in every pool state and for every n for
\* which p = alloc(n) succeeds, free(p) restores the free list to exactly the
\* sequence of (pointer, size) pairs it held before the alloc, so that a
\* following alloc(n) returns p again.
C29_RoundTrip ==
    (Live /\ ~thread_safe)
    => \A n \in ReqInputs :
          LET a == AllocNow(n)
              f == FreeAfter(a, a.ret)
          IN  (~a.crash /\ a.ret # NULL)
              => (/\ ~f.crash
                  /\ f.free = free_list
                  /\ Alloc(f.free, free_wild, f.alloc, a.coal, a.fmutex,
                           thread_safe, block_size, n).ret = a.ret)

\* ------------------------------------------------ where a descriptor is
\* the descriptors thread t has taken off a list and not yet put on the other
\* one; between the load of line 118 and the store of line 122 the head is
\* still on the free list
Detached(t) == IF thr[t].pc = "af_next" THEN <<>> ELSE thr[t].held

NoDuplicate(l) == \A i, j \in 1..Len(l) : l[i].ptr = l[j].ptr => i = j

\* C30: in every reachable state a live descriptor is in exactly one place:
\* on the free list, on the allocated list, or detached inside one operation
\* in progress; no descriptor is reachable from both lists, and neither list
\* holds a descriptor twice (which a cycle would make it do).
C30_OnePlace ==
    Live =>
       /\ Ptrs(free_list) \cap Ptrs(allocated_list) = {}
       /\ NoDuplicate(free_list)
       /\ NoDuplicate(allocated_list)
       /\ \A t \in Threads :
             /\ NoDuplicate(Detached(t))
             /\ Ptrs(Detached(t)) \cap (Ptrs(free_list) \cup Ptrs(allocated_list)) = {}
             /\ \A u \in Threads \ {t} : Ptrs(Detached(t)) \cap Ptrs(Detached(u)) = {}

\* two operations hold detached descriptors while a third block is free and
\* one of the two chunks came off the allocated list
C30_Witness ==
    /\ Live /\ thread_safe
    /\ free_list # <<>>
    /\ Detached("T1") # <<>> /\ Detached("T2") # <<>>
    /\ thr["T1"].op = "free" /\ thr["T2"].op = "alloc"

\* ------------------------------------------------------ sizes and counts
\* C31: in every reachable state every descriptor on either list has a size
\* that is a positive multiple of the configured block size, and every
\* descriptor on the free list has size exactly block_size.
C31_Quantised ==
    Live =>
       /\ \A i \in 1..Len(free_list) : free_list[i].size = block_size
       /\ \A i \in 1..Len(allocated_list) :
             /\ allocated_list[i].size >= block_size
             /\ allocated_list[i].size % block_size = 0

\* a coalesced chunk has been split by free while another one is allocated
C31_Witness ==
    /\ Live
    /\ last.op = "free"
    /\ Len(free_list) >= 2
    /\ \E i \in 1..Len(allocated_list) : allocated_list[i].size = 2 * block_size

\* the k descriptors of block_size bytes that cover the k blocks from p on
BlocksFrom(p, k) == [i \in 1..k |-> Block(p + (i - 1) * block_size, block_size)]

\* C32: free(p) of an outstanding descriptor of k * block_size bytes puts
\* exactly k descriptors on the free list, with pointers p + i * block_size
\* for i = 0..k-1 and size block_size each, next to one another in list order
\* (one descriptor when k = 1), and leaves every other descriptor on the free
\* list and on the allocated list as it was.
C32_FreeSplits ==
    [][(/\ Live
        /\ last'.op = "free"
        /\ IndexOf(allocated_list, last'.a) # 0)
       => LET i == IndexOf(allocated_list, last'.a)
              k == allocated_list[i].size \div block_size
          IN  /\ status' = "live"
              /\ allocated_list' = Without(allocated_list, i, i)
              /\ \E j \in 0..Len(free_list) :
                    free_list' = Slice(free_list, 1, j) \o BlocksFrom(last'.a, k)
                                 \o Slice(free_list, j + 1, Len(free_list))]_vars

\* C33: the coalesced-block counter increases by exactly one on each alloc
\* that takes the coalescing path (the step of line 144), is left unchanged
\* by every other step (fast-path alloc, free, in-place realloc), and never
\* decreases.
C33_CounterCounts ==
    [][(Live /\ status' = "live")
       => /\ num_coalesced' >= num_coalesced
          /\ \A t \in Threads :
                Acts(t) => num_coalesced' =
                             IF thr[t].pc = "a_count" THEN num_coalesced + 1
                             ELSE num_coalesced]_vars

\* C34: in thread-safe mode, when several threads call alloc at the same time
\* and fewer free blocks remain than there are callers, no call removes the
\* head of, or reads through, an empty free list: a call that has come to
\* line 122 or line 159 finds a descriptor at the head (and so every call
\* returns a block of its own or NULL).
C34_NoPopOfEmptyList ==
    (Live /\ thread_safe)
    => \A t \in Threads :
          (thr[t].op = "alloc" /\ thr[t].pc \in {"af_next", "ac_search"})
          => free_list # <<>>

\* ----------------------------------------------------- calls that fail
\* C35: when a growing realloc(p, n) fails because no new region can be
\* allocated, p stays on the allocated list with its recorded size and its
\* blocks are not returned to the free list: both lists are as they were.
C35_FailedReallocKeeps ==
    [][(/\ Live
        /\ last'.op = "realloc"
        /\ IndexOf(allocated_list, last'.a) # 0
        /\ ~FitsInPlace(allocated_list[IndexOf(allocated_list, last'.a)], last'.b)
        /\ ~AllocNow(last'.b).crash
        /\ AllocNow(last'.b).ret = NULL)
       => (/\ status' = "live"
           /\ allocated_list' = allocated_list
           /\ free_list' = free_list)]_vars

\* C36: an alloc that fails (empty free list, or no run of k contiguous free
\* blocks on the coalescing path) leaves the whole pool state unchanged, the
\* coalesced-block counter included, so that the counter counts the
\* coalescing allocations that succeeded.
C36_FailedAllocChangesNothing ==
    [][(/\ Live
        /\ last'.op = "alloc"
        /\ last'.ret = NULL
        /\ status' = "live")
       => (/\ free_list' = free_list
           /\ allocated_list' = allocated_list
           /\ num_coalesced' = num_coalesced)]_vars

\* ------------------------------------------------------------ arithmetic
\* C37: every pool a successful init returns has at least one free block:
\* for all S and B with 0 < B < S the number of blocks S / B_rounded is at
\* least 1, the rounded block size never exceeding S.
C37_AtLeastOneBlock ==
    (status = "live" /\ last.op = "init" /\ last.ret = 1)
    => (/\ block_size <= mempool_size
        /\ mempool_size \div block_size >= 1
        /\ Len(free_list) >= 1)

\* C38: the coalescing search succeeds for every k = ceil(n / block_size) up
\* to the number of blocks of the pool whenever the free list holds k
\* address-contiguous descriptors, k >= 65536 included: the run length
\* counted during the search is never wrapped or cut short of the 32-bit
\* number of blocks needed.
C38_WideRunFound ==
    LET fl == ProbeFreeList(probe.blocks, probe.out)
        k == BlocksNeeded(probe.n, ProbeBlockSize)
    IN  (probe.done /\ k <= probe.blocks /\ Windows(fl, k, ProbeBlockSize) # {})
        => (probe.ret # NULL /\ probe.size >= probe.n)

\* C39: calloc(m, s) never zero-fills more bytes than the descriptor it
\* obtained owns: for all m and s, those whose product does not fit in 32
\* bits included, the byte count passed to alloc is the byte count that is
\* zero-filled, so that a call whose alloc succeeds returns a region of at
\* least m * s bytes.
C39_CallocFillsWhatItOwns ==
    [][(/\ Live
        /\ last'.op = "calloc"
        /\ MulWide(last'.a, last'.b) # WideOf(0)
        /\ ~AllocNow(Low32(MulWide(last'.a, last'.b))).crash
        /\ AllocNow(Low32(MulWide(last'.a, last'.b))).ret # NULL)
       => (/\ WideOf(Low32(MulWide(last'.a, last'.b))) = MulWide(last'.a, last'.b)
           /\ status' = "live"
           /\ RecordedSize(allocated_list', last'.ret)
                 >= Low32(MulWide(last'.a, last'.b)))]_vars

\* ------------------------------------------------- descriptor records
\* the records detached inside the calls in progress
HeldRecords == Len(Detached("T1")) + Len(Detached("T2"))

\* C40: descriptor records are conserved: every record not yet released is
\* on one of the two lists or detached inside a call in progress; coalescing
\* k blocks releases exactly the k - 1 companion records, splitting a k-block
\* descriptor on free makes exactly k - 1 new records, and destroy releases
\* each record left on the two lists exactly once, nothing else and nothing
\* twice.
C40_RecordsConserved ==
    /\ [](Live => records = Len(free_list) + Len(allocated_list) + HeldRecords)
    /\ [][(/\ Live /\ status' = "live"
            /\ last'.op = "alloc" /\ last'.a > block_size /\ last'.ret # NULL)
           => records' = records - (BlocksNeeded(last'.a, block_size) - 1)]_vars
    /\ [][(/\ Live /\ status' = "live"
            /\ last'.op = "free" /\ IndexOf(allocated_list, last'.a) # 0)
           => records' = records + (RecordedSize(allocated_list, last'.a)
                                      \div block_size - 1)]_vars
    /\ [][(Live /\ last'.op = "destroy")
           => (status' # "crashed" /\ records' = 0)]_vars


====
